---- MODULE Spec2Model ----
(***************************************************************************)
(* dnsimple-strillone: the webhook relay of server.go.                     *)
(*                                                                         *)
(* State: the wall clock (time.Now), the process-wide processedEvents      *)
(* cache, the in-flight calls of Server.Slack (one goroutine per request,  *)
(* net/http), the last answer of Server.Root.  The cache is the imported   *)
(* package github.com/wunderlist/ttlcache: a mutex-protected map of items, *)
(* each with an expiry; Get and Set each run under the cache mutex, so     *)
(* each is one atomic step; Get renews the expiry of the item it finds;    *)
(* NewCache starts a goroutine that removes expired items.                 *)
(***************************************************************************)
EXTENDS Integers, FiniteSets, Sequences, TLC

\* ---------------------------------------------------------------- constants
cacheTTL == 300
StatusOK == 200
StatusBadRequest == 400
StatusMethodNotAllowed == 405
StatusInternalServerError == 500

\* ---------------------------------------------------------------- bounds
MaxReqs == 2        \* concurrent handler goroutines
MaxTicks == 2       \* clock advances explored
TickLen == (2 * cacheTTL) \div 3   \* one advance is less than the TTL, two are more
MaxTime == MaxTicks * TickLen

Reqs == 1..MaxReqs
Ids == {"x", "y"}                 \* event.RequestID values of well-formed events
NoId == ""                        \* the RequestID of a zero-value event
Keys == Ids \cup {NoId}           \* the strings the cache is keyed by
NoItem == 0 - 1                   \* key absent from cache.items
Never == 0 - 1

\* The requests the router or a test hands to Server.Slack.
PostEvents == [method : {"POST"}, kind : {"event"}, id : Ids, token : {"A/B/C"}]
PostBroken == [method : {"POST"}, kind : {"unreadable", "malformed"}, id : {NoId}, token : {"A/B/C"}]
NonPost == [method : {"PUT"}, kind : {"event"}, id : {"x"}, token : {"A/B/C"}]
NonPostBroken == [method : {"PUT"}, kind : {"unreadable", "malformed"}, id : {NoId}, token : {"A/B/C"}]
Requests == PostEvents \cup PostBroken \cup NonPost
NoRequest == [method |-> "-", kind |-> "-", id |-> NoId, token |-> "-"]

\* A response: status 0 = nothing written yet; marker = the value of the
\* X-Processing-Status header ("" = header absent); body = what was written.
NoResponse == [status |-> 0, marker |-> "", body |-> <<>>]

VARIABLES
    now,        \* time.Now(), in seconds
    items,      \* processedEvents: key -> the item's expiry, or NoItem
    pc,         \* where each Server.Slack call stands
    req,        \* the request each call handles
    resp,       \* the response each call has written
    ret,        \* the return statement each finished call left by
    calls,      \* service.PostEvent calls each call has made
    lastSet,    \* history: key -> the time of the latest processedEvents.Set
    ping,       \* the ping value of the latest GET / answer
    prevPing,   \* history: the ping value of the answer before that one
    rootStatus  \* the status of the latest GET / answer

vars == <<now, items, pc, req, resp, ret, calls, lastSet, ping, prevPing, rootStatus>>

\* ---------------------------------------------------------------- ttlcache
\* item.touch(ttl): expires = time.Now().Add(ttl)
touchDoubled(t) == t + 2 * cacheTTL
touch(t) == t + cacheTTL

\* item.expired(): expires.Before(time.Now())
expiredInverted(e, t) == e > t
expiredNever(e, t) == FALSE
expired(e, t) == e < t

\* Cache.Get: found iff the key is in the map and its item has not expired.
Found(c, key, t) == c[key] # NoItem /\ ~expired(c[key], t)

\* Cache.Get's effect on the map: the item found is touched.
AfterGet(c, key, t) == IF Found(c, key, t) THEN [c EXCEPT ![key] = touch(t)] ELSE c

\* Cache.Set: a new item, touched, replaces whatever the key held.
AfterSetDropped(c, key, t) == c
AfterSetKeepsOld(c, key, t) == IF c[key] # NoItem THEN c ELSE [c EXCEPT ![key] = t + cacheTTL]
AfterSet(c, key, t) == [c EXCEPT ![key] = touch(t)]

\* Cache.cleanup: every expired item is deleted.
AfterCleanup(c, t) == [k \in DOMAIN c |-> IF c[k] # NoItem /\ expired(c[k], t) THEN NoItem ELSE c[k]]

\* ---------------------------------------------------------------- responses
\* http.Error(w, msg, code): status code, body msg and a newline.
HttpError(msg, code) == [status |-> code, marker |-> "", body |-> <<msg, "\n">>]

\* fmt.Fprintln(w, text) on a fresh ResponseWriter: implicit 200, text and a newline.
Fprintln(text) == [status |-> StatusOK, marker |-> "", body |-> <<text, "\n">>]

\* w.Header().Set(headerProcessingStatus, ...); w.WriteHeader(200)
SkippedUnmarked == [status |-> StatusOK, marker |-> "", body |-> <<>>]
Skipped == [status |-> StatusOK, marker |-> "skipped;already-processed", body |-> <<>>]

\* w.WriteHeader(405)
NotAllowed == [status |-> StatusMethodNotAllowed, marker |-> "", body |-> <<>>]

\* The text service.PostEvent returns for an event.
RelayText(q) == <<"sent", q.id>>

\* ---------------------------------------------------------------- Init
Init ==
    /\ now = 0
    /\ items = [k \in Keys |-> NoItem]
    /\ pc = [r \in Reqs |-> "idle"]
    /\ req = [r \in Reqs |-> NoRequest]
    /\ resp = [r \in Reqs |-> NoResponse]
    /\ ret = [r \in Reqs |-> "-"]
    /\ calls = [r \in Reqs |-> 0]
    /\ lastSet = [k \in Keys |-> Never]
    /\ ping = Never
    /\ prevPing = Never
    /\ rootStatus = 0

\* A handler returns: its response is complete.
Return(r, how, response) ==
    /\ pc' = [pc EXCEPT ![r] = "done"]
    /\ ret' = [ret EXCEPT ![r] = how]
    /\ resp' = [resp EXCEPT ![r] = response]

\* ---------------------------------------------------------------- actions
\* time.Now() moves on.
Tick ==
    /\ now + TickLen <= MaxTime
    /\ now' = now + TickLen
    /\ UNCHANGED <<items, pc, req, resp, ret, calls, lastSet, ping, prevPing, rootStatus>>

\* The cache's cleanup goroutine runs.
Cleanup ==
    /\ AfterCleanup(items, now) # items
    /\ items' = AfterCleanup(items, now)
    /\ UNCHANGED <<now, pc, req, resp, ret, calls, lastSet, ping, prevPing, rootStatus>>

\* GET /: Server.Root answers 200 with the clock's reading.
RootWrapped ==
    /\ prevPing' = ping
    /\ ping' = now % cacheTTL
    /\ rootStatus' = StatusOK
    /\ UNCHANGED <<now, items, pc, req, resp, ret, calls, lastSet>>

Root ==
    /\ prevPing' = ping
    /\ ping' = now
    /\ rootStatus' = StatusOK
    /\ UNCHANGED <<now, items, pc, req, resp, ret, calls, lastSet>>

\* ioutil.ReadAll(r.Body): the error it returns, "" for none.
ReadAll(q) == IF q.kind = "unreadable" THEN "read error" ELSE ""

\* webhook.ParseEvent(data): the error it returns, "" for none.
ParseEvent(q) == IF q.kind = "malformed" THEN "parse error" ELSE ""

\* A request is dispatched to Server.Slack in a goroutine of its own, which runs
\* up to the cache lookup: the method check, the body read and the parse touch
\* nothing but the request.
SlackParseErrorFallsThrough(r, q) ==
    /\ pc[r] \in {"idle", "done"}
    /\ req' = [req EXCEPT ![r] = q]
    /\ calls' = [calls EXCEPT ![r] = 0]
    /\ IF q.method # "POST"
         THEN Return(r, "method-not-allowed", NotAllowed)
         ELSE IF ReadAll(q) # ""
         THEN Return(r, "parse-error", HttpError(ReadAll(q), StatusBadRequest))
         ELSE /\ pc' = [pc EXCEPT ![r] = "get"]
              /\ resp' = [resp EXCEPT ![r] = NoResponse]
              /\ ret' = [ret EXCEPT ![r] = "-"]
    /\ UNCHANGED <<now, items, lastSet, ping, prevPing, rootStatus>>

SlackMethodUnchecked(r, q) ==
    /\ pc[r] \in {"idle", "done"}
    /\ req' = [req EXCEPT ![r] = q]
    /\ calls' = [calls EXCEPT ![r] = 0]
    /\ IF ReadAll(q) # ""
         THEN Return(r, "parse-error", HttpError(ReadAll(q), StatusBadRequest))
         ELSE IF ParseEvent(q) # ""
         THEN Return(r, "parse-error", HttpError(ParseEvent(q), StatusBadRequest))
         ELSE /\ pc' = [pc EXCEPT ![r] = "get"]
              /\ resp' = [resp EXCEPT ![r] = NoResponse]
              /\ ret' = [ret EXCEPT ![r] = "-"]
    /\ UNCHANGED <<now, items, lastSet, ping, prevPing, rootStatus>>

Slack(r, q) ==
    /\ pc[r] \in {"idle", "done"}
    /\ req' = [req EXCEPT ![r] = q]
    /\ calls' = [calls EXCEPT ![r] = 0]
    /\ IF q.method # "POST"
         THEN Return(r, "method-not-allowed", NotAllowed)
         ELSE IF ReadAll(q) # ""
         THEN Return(r, "parse-error", HttpError(ReadAll(q), StatusBadRequest))
         ELSE IF ParseEvent(q) # ""
         THEN Return(r, "parse-error", HttpError(ParseEvent(q), StatusBadRequest))
         ELSE /\ pc' = [pc EXCEPT ![r] = "get"]
              /\ resp' = [resp EXCEPT ![r] = NoResponse]
              /\ ret' = [ret EXCEPT ![r] = "-"]
    /\ UNCHANGED <<now, items, lastSet, ping, prevPing, rootStatus>>

\* processedEvents.Get(event.RequestID) and the duplicate's answer.
CacheGetSerialized(r) ==
    /\ pc[r] = "get"
    /\ \A r2 \in Reqs : pc[r2] \notin {"post", "set"}
    /\ items' = AfterGet(items, req[r].id, now)
    /\ IF Found(items, req[r].id, now)
         THEN Return(r, "skipped-duplicate", Skipped)
         ELSE pc' = [pc EXCEPT ![r] = "post"] /\ UNCHANGED <<resp, ret>>
    /\ UNCHANGED <<now, req, calls, lastSet, ping, prevPing, rootStatus>>

CacheGetRecordsMiss(r) ==
    /\ pc[r] = "get"
    /\ items' = [items EXCEPT ![req[r].id] = now + cacheTTL]
    /\ IF Found(items, req[r].id, now)
         THEN Return(r, "skipped-duplicate", Skipped)
         ELSE pc' = [pc EXCEPT ![r] = "post"] /\ UNCHANGED <<resp, ret>>
    /\ UNCHANGED <<now, req, calls, lastSet, ping, prevPing, rootStatus>>

CacheGetPerRoute(r) ==
    /\ pc[r] = "get"
    /\ items' = AfterGet(items, req[r].id, now)
    /\ IF /\ Found(items, req[r].id, now)
          /\ \E r2 \in Reqs : ret[r2] = "forwarded" /\ req[r2] = req[r]
         THEN Return(r, "skipped-duplicate", Skipped)
         ELSE pc' = [pc EXCEPT ![r] = "post"] /\ UNCHANGED <<resp, ret>>
    /\ UNCHANGED <<now, req, calls, lastSet, ping, prevPing, rootStatus>>

CacheGet(r) ==
    /\ pc[r] = "get"
    /\ items' = AfterGet(items, req[r].id, now)
    /\ IF Found(items, req[r].id, now)
         THEN Return(r, "skipped-duplicate", Skipped)
         ELSE pc' = [pc EXCEPT ![r] = "post"] /\ UNCHANGED <<resp, ret>>
    /\ UNCHANGED <<now, req, calls, lastSet, ping, prevPing, rootStatus>>

\* The destination of a request's relay call: SlackService{Token: slackToken}.
slackToken(q) == q.token

\* service.PostEvent(event) returns an error: 500.
PostEventErrRecorded(r) ==
    /\ pc[r] = "post"
    /\ calls' = [calls EXCEPT ![r] = @ + 1]
    /\ items' = AfterSet(items, req[r].id, now)
    /\ Return(r, "relay-error", HttpError("relay error", StatusInternalServerError))
    /\ UNCHANGED <<now, req, lastSet, ping, prevPing, rootStatus>>

PostEventErrRetried(r) ==
    /\ pc[r] = "post"
    /\ calls' = [calls EXCEPT ![r] = @ + 1]
    /\ IF calls[r] = 0
         THEN UNCHANGED <<pc, ret, resp>>
         ELSE Return(r, "relay-error", HttpError("relay error", StatusInternalServerError))
    /\ UNCHANGED <<now, items, req, lastSet, ping, prevPing, rootStatus>>

PostEventErrPanics(r) ==
    /\ pc[r] = "post"
    /\ calls' = [calls EXCEPT ![r] = @ + 1]
    /\ pc' = [r2 \in Reqs |-> "crashed"]
    /\ UNCHANGED <<now, items, req, resp, ret, lastSet, ping, prevPing, rootStatus>>

PostEventErr(r) ==
    /\ pc[r] = "post"
    /\ calls' = [calls EXCEPT ![r] = @ + 1]
    /\ Return(r, "relay-error", HttpError("relay error", StatusInternalServerError))
    /\ UNCHANGED <<now, items, req, lastSet, ping, prevPing, rootStatus>>

\* service.PostEvent(event) returns the text.
PostEventOk(r) ==
    /\ pc[r] = "post"
    /\ calls' = [calls EXCEPT ![r] = @ + 1]
    /\ pc' = [pc EXCEPT ![r] = "set"]
    /\ UNCHANGED <<now, items, req, resp, ret, lastSet, ping, prevPing, rootStatus>>

\* processedEvents.Set(event.RequestID, ...); fmt.Fprintln(w, text)
CacheSet(r) ==
    /\ pc[r] = "set"
    /\ items' = AfterSet(items, req[r].id, now)
    /\ lastSet' = [lastSet EXCEPT ![req[r].id] = now]
    /\ Return(r, "forwarded", Fprintln(RelayText(req[r])))
    /\ UNCHANGED <<now, req, calls, ping, prevPing, rootStatus>>

\* One step of a Server.Slack call already dispatched.
Step(r) ==
    \/ CacheGet(r)
    \/ PostEventOk(r)
    \/ PostEventErr(r)
    \/ CacheSet(r)

\* The relay route: POST /slack/:slackAlpha/:slackBeta/:slackGamma.
Next ==
    \/ Tick
    \/ Cleanup
    \/ \E r \in Reqs, q \in Requests : Slack(r, q)
    \/ \E r \in Reqs : Step(r)

Spec == Init /\ [][Next]_vars

\* The requests for one event id, and those of another method whose body
\* would not be read or parsed.
ProbeRequests == {q \in Requests : q.id # "y"} \cup NonPostBroken

\* The relay route under those, every dispatched call being scheduled again and
\* again and every call it makes (cache, parser, relay client) returning.
NextFair ==
    \/ Tick
    \/ Cleanup
    \/ \E r \in Reqs, q \in ProbeRequests : Slack(r, q)
    \/ \E r \in Reqs : Step(r)

SpecFair == Init /\ [][NextFair]_vars /\ \A r \in Reqs : WF_vars(Step(r))

\* One event posted to two destinations: the relay route with two values of
\* its parameters slackAlpha/slackBeta/slackGamma.
RouteRequests == [method : {"POST"}, kind : {"event"}, id : {"x"}, token : {"A/B/C", "D/E/F"}]

NextRoutes ==
    \/ Tick
    \/ Cleanup
    \/ \E r \in Reqs, q \in RouteRequests : Slack(r, q)
    \/ \E r \in Reqs : Step(r)

SpecRoutes == Init /\ [][NextRoutes]_vars

\* Both routes: GET / among the relay's requests.

NextRoot ==
    \/ Root
    \/ Tick
    \/ Cleanup
    \/ \E r \in Reqs, q \in ProbeRequests : Slack(r, q)
    \/ \E r \in Reqs : Step(r)

SpecRoot == Init /\ [][NextRoot]_vars

\* ---------------------------------------------------------------- claims
Id(r) == req[r].id

\* In this step call r makes its cache lookup.
Looks(r) == pc[r] = "get" /\ pc'[r] # "get"

IsPost(r) == req[r].method = "POST"

\* C1: an event whose id the cache does not hold goes to the relay; the relay
\* succeeding, the answer is forwarded and the id is recorded; a lookup of that
\* id less than 300 s after it was recorded ends the request as
\* skipped-duplicate without a relay call.
C1_ForwardedThenSkipped ==
    [][\A r \in Reqs :
        /\ (Looks(r) /\ items[Id(r)] = NoItem) => pc'[r] = "post"
        /\ PostEventOk(r) => pc'[r] = "set"
        /\ CacheSet(r) =>
              /\ ret'[r] = "forwarded"
              /\ resp'[r].status = StatusOK
              /\ lastSet'[Id(r)] = now
              /\ items'[Id(r)] # NoItem /\ items'[Id(r)] >= now
        /\ (Looks(r) /\ lastSet[Id(r)] # Never /\ now - lastSet[Id(r)] < cacheTTL) =>
              /\ pc'[r] = "done"
              /\ ret'[r] = "skipped-duplicate"
              /\ calls'[r] = 0]_vars

C1_Witness ==
    \E r1, r2 \in Reqs :
        /\ r1 # r2 /\ Id(r1) = Id(r2)
        /\ pc[r1] = "done" /\ ret[r1] = "forwarded"
        /\ pc[r2] = "done" /\ ret[r2] = "skipped-duplicate" /\ calls[r2] = 0
        /\ lastSet[Id(r1)] # Never /\ now > lastSet[Id(r1)] /\ now - lastSet[Id(r1)] < cacheTTL
        /\ items[Id(r1)] = now + cacheTTL

\* C2: a relay failure ends the request as relay-error and changes nothing in
\* the cache; an id no Set ever recorded is not in the cache, so a lookup of
\* it misses and the request goes to the relay again.
C2_RelayFailureLeavesCache ==
    /\ [](\A k \in Keys : lastSet[k] = Never => items[k] = NoItem)
    /\ [][\A r \in Reqs :
            /\ PostEventErr(r) =>
                  /\ items' = items
                  /\ ret'[r] = "relay-error"
                  /\ resp'[r].status = StatusInternalServerError
            /\ (Looks(r) /\ lastSet[Id(r)] = Never) => pc'[r] = "post"]_vars

C2_Witness ==
    \E r1, r2 \in Reqs :
        /\ r1 # r2 /\ Id(r1) = Id(r2)
        /\ pc[r1] = "done" /\ ret[r1] = "relay-error"
        /\ pc[r2] = "done" /\ ret[r2] = "relay-error" /\ calls[r2] = 1
        /\ items[Id(r1)] = NoItem

\* C3: a request whose body does not parse ends as parse-error (400, no marker)
\* without a relay call, the step that handles it changes nothing in the cache,
\* and the zero-value id is never recorded.
C3_ParseErrorTouchesNothing ==
    /\ [](\A r \in Reqs : (IsPost(r) /\ req[r].kind = "malformed") =>
              /\ pc[r] = "done"
              /\ ret[r] = "parse-error"
              /\ resp[r].status = StatusBadRequest
              /\ resp[r].marker = ""
              /\ calls[r] = 0)
    /\ [](items[NoId] = NoItem)
    /\ [][\A r \in Reqs :
            (req'[r].kind = "malformed" /\ (req'[r] # req[r] \/ pc'[r] # pc[r])) =>
                items' = items /\ lastSet' = lastSet]_vars

C3_Witness ==
    \E r1, r2 \in Reqs :
        /\ r1 # r2
        /\ req[r1].kind = "malformed" /\ ret[r1] = "parse-error"
        /\ req[r2].kind = "malformed" /\ ret[r2] = "parse-error"
        /\ \A k \in Keys : items[k] = NoItem

\* C4: of the concurrent requests for one id that the cache does not hold yet,
\* at most one has gone on to the relay call.
C4_AtMostOneProceeds ==
    \A r1, r2 \in Reqs :
        (r1 # r2 /\ Id(r1) = Id(r2) /\ lastSet[Id(r1)] = Never /\ pc[r1] \in {"post", "set"})
            => pc[r2] \notin {"post", "set"}

\* C5: once a Set has recorded an id, every lookup of it made while the entry
\* is in the map and not expired ends the request as skipped-duplicate, and no
\* relay call is made in that step, whatever the other handlers are doing.
C5_RecordedMeansSkipped ==
    [][\A r \in Reqs :
        (Looks(r) /\ lastSet[Id(r)] # Never /\ items[Id(r)] # NoItem /\ now <= items[Id(r)]) =>
            /\ pc'[r] = "done"
            /\ ret'[r] = "skipped-duplicate"
            /\ resp'[r].marker # ""
            /\ calls' = calls
            /\ calls[r] = 0]_vars

C5_Witness ==
    \E r1, r2 \in Reqs :
        /\ r1 # r2 /\ Id(r1) = Id(r2)
        /\ pc[r1] = "done" /\ ret[r1] = "skipped-duplicate"
        /\ pc[r2] = "post"
        /\ lastSet[Id(r1)] # Never /\ now > lastSet[Id(r1)]
        /\ items[Id(r1)] = now + cacheTTL

C8_ResponseTellsOutcome ==
    \A r \in Reqs : (pc[r] = "done" /\ IsPost(r)) =>
        /\ ret[r] \in {"forwarded", "skipped-duplicate", "parse-error", "relay-error"}
        /\ ret[r] = "forwarded" =>
              resp[r] = [status |-> StatusOK, marker |-> "", body |-> <<RelayText(req[r]), "\n">>]
        /\ ret[r] = "skipped-duplicate" =>
              resp[r] = [status |-> StatusOK, marker |-> "skipped;already-processed", body |-> <<>>]
        /\ ret[r] = "parse-error" =>
              /\ resp[r].status = StatusBadRequest
              /\ resp[r].body \in {<<"read error", "\n">>, <<"parse error", "\n">>}
        /\ ret[r] = "relay-error" =>
              /\ resp[r].status = StatusInternalServerError
              /\ resp[r].body = <<"relay error", "\n">>
        /\ (resp[r].marker # "") <=> (ret[r] = "skipped-duplicate")
        /\ \A r2 \in Reqs : (pc[r2] = "done" /\ IsPost(r2) /\ resp[r2] = resp[r]) => ret[r2] = ret[r]

C8_Witness ==
    \E r1, r2 \in Reqs :
        /\ pc[r1] = "done" /\ ret[r1] = "skipped-duplicate" /\ resp[r1].marker # ""
        /\ pc[r2] = "done" /\ ret[r2] = "forwarded" /\ resp[r2].marker = ""
        /\ resp[r1].status = resp[r2].status

\* C9: GET / answers 200 with the clock's reading, no answer's ping is below
\* the one before it, and the step changes neither the cache nor any relay
\* request.
C9_PingMonotone ==
    /\ [](prevPing <= ping /\ (ping # Never => rootStatus = StatusOK))
    /\ [][(ping' # ping \/ prevPing' # prevPing \/ rootStatus' # rootStatus) =>
            /\ ping' = now
            /\ items' = items
            /\ <<pc, req, resp, ret, calls>>' = <<pc, req, resp, ret, calls>>]_vars

C9_Witness ==
    /\ prevPing # Never /\ prevPing < ping /\ rootStatus = StatusOK
    /\ \E r \in Reqs : pc[r] = "post"
    /\ \E k \in Keys : items[k] # NoItem

\* C10: a request calls the relay at most once; a finished one has called it
\* iff it left as forwarded or relay-error, which only a parsed event whose
\* lookup missed does; a failed call is answered 500 and not repeated.
C10_OneRelayCall ==
    \A r \in Reqs :
        /\ calls[r] \in {0, 1}
        /\ pc[r] \in {"idle", "get", "post"} => calls[r] = 0
        /\ pc[r] = "set" => calls[r] = 1
        /\ pc[r] = "done" => ((calls[r] = 1) <=> (ret[r] \in {"forwarded", "relay-error"}))
        /\ calls[r] = 1 => (IsPost(r) /\ req[r].kind = "event")
        /\ (pc[r] = "done" /\ IsPost(r) /\ req[r].kind = "event" /\ ret[r] # "skipped-duplicate")
              => calls[r] = 1
        /\ (pc[r] = "done" /\ ret[r] = "relay-error") => resp[r].status = StatusInternalServerError

C10_Witness ==
    \E r \in Reqs : pc[r] = "done" /\ ret[r] = "relay-error" /\ calls[r] = 1

\* C11: a Set replaces whatever the key held by an entry that expires 300 s
\* from the Set, an entry already there included: after the Sets of two racing
\* requests for one id the expiry is 300 s after the later Set, and a lookup
\* made up to then finds the entry.
C11_SetOverwrites ==
    /\ [][\A r \in Reqs :
            (pc[r] = "set" /\ pc'[r] # "set") =>
                /\ items' = [items EXCEPT ![Id(r)] = now + cacheTTL]
                /\ lastSet' = [lastSet EXCEPT ![Id(r)] = now]
                /\ ret'[r] = "forwarded"]_vars
    /\ [][\A r \in Reqs :
            (Looks(r) /\ items[Id(r)] # NoItem /\ lastSet[Id(r)] # Never
                /\ now <= lastSet[Id(r)] + cacheTTL) =>
                ret'[r] = "skipped-duplicate"]_vars

C11_Witness ==
    \E r1, r2 \in Reqs :
        /\ r1 # r2 /\ Id(r1) = Id(r2)
        /\ pc[r1] = "done" /\ ret[r1] = "forwarded" /\ calls[r1] = 1
        /\ pc[r2] = "done" /\ ret[r2] = "forwarded" /\ calls[r2] = 1
        /\ now = MaxTime /\ lastSet[Id(r1)] = TickLen
        /\ items[Id(r1)] = TickLen + cacheTTL

\* C12: while one call waits in service.PostEvent, every other call can take
\* its next step, whatever it is (be dispatched, look up, relay, record), for
\* the same id or another, and taking it neither needs nor causes the waiting
\* call to move: nothing is held across the relay call.
C12_RelayBlocksNobody ==
    /\ [](\A r1, r2 \in Reqs : (r1 # r2 /\ pc[r1] = "post") =>
              /\ pc[r2] \in {"idle", "done"} => \A q \in Requests : ENABLED Slack(r2, q)
              /\ pc[r2] = "get" => ENABLED CacheGet(r2)
              /\ pc[r2] = "post" => ENABLED PostEventOk(r2) /\ ENABLED PostEventErr(r2)
              /\ pc[r2] = "set" => ENABLED CacheSet(r2))
    /\ [][\A r1, r2 \in Reqs :
            (r1 # r2 /\ pc[r1] = "post" /\ pc'[r2] # pc[r2]) =>
                /\ pc'[r1] = "post"
                /\ calls'[r1] = calls[r1]
                /\ resp'[r1] = resp[r1]]_vars

C12_Witness ==
    \E r1, r2 \in Reqs :
        /\ r1 # r2 /\ Id(r1) = Id(r2)
        /\ pc[r1] = "post" /\ calls[r1] = 0
        /\ pc[r2] = "done" /\ ret[r2] = "forwarded" /\ calls[r2] = 1
        /\ lastSet[Id(r2)] = now /\ items[Id(r2)] = now + cacheTTL

\* C13: every call is either waiting for a request or able to take its next
\* step; a dispatched call reaches its return, and has then written exactly one
\* response, none before; a step that ends a call in an error (400, 500)
\* leaves the cache and the other calls as they are, and the call can be
\* handed any request again.
C13_ErrorsNeverStop ==
    /\ [](\A r \in Reqs :
              /\ (ENABLED Step(r)) \/ (\A q \in Requests : ENABLED Slack(r, q))
              /\ pc[r] \in {"get", "post", "set"} => resp[r] = NoResponse
              /\ pc[r] = "done" => resp[r].status # 0)
    /\ [][\A r \in Reqs :
            /\ resp'[r] # resp[r] => (pc'[r] = "done" \/ resp'[r] = NoResponse)
            /\ (pc[r] = "done" /\ pc'[r] = "done" /\ req'[r] = req[r]) => resp'[r] = resp[r]
            /\ (pc'[r] # pc[r] /\ ret'[r] \in {"parse-error", "relay-error"}) =>
                  /\ items' = items
                  /\ \A r2 \in Reqs \ {r} : pc'[r2] = pc[r2] /\ resp'[r2] = resp[r2]]_vars
    /\ \A r \in Reqs : (pc[r] \in {"get", "post", "set"}) ~> (pc[r] = "done")

C13_Witness ==
    \E r1, r2 \in Reqs :
        /\ r1 # r2 /\ Id(r1) = Id(r2)
        /\ pc[r1] = "done" /\ ret[r1] = "relay-error" /\ resp[r1].status = StatusInternalServerError
        /\ pc[r2] = "done" /\ ret[r2] = "forwarded" /\ resp[r2].status = StatusOK
        /\ now > 0 /\ lastSet[Id(r2)] = now

\* C14: a request of another method than POST handed to Server.Slack is
\* answered 405 with no header and no body in the step that dispatches it,
\* whatever its body (a well-formed event, unreadable, malformed): no 400, no
\* relay call, and the step changes nothing in the cache.
C14_NonPostRefused ==
    /\ [](\A r \in Reqs : (pc[r] # "idle" /\ ~IsPost(r)) =>
              /\ pc[r] = "done"
              /\ ret[r] = "method-not-allowed"
              /\ resp[r] = [status |-> StatusMethodNotAllowed, marker |-> "", body |-> <<>>]
              /\ calls[r] = 0)
    /\ [][\A r \in Reqs :
            (req'[r].method = "PUT" /\ (req'[r] # req[r] \/ pc'[r] # pc[r])) =>
                /\ items' = items
                /\ lastSet' = lastSet
                /\ calls' = [calls EXCEPT ![r] = 0]
                /\ \A r2 \in Reqs \ {r} : pc'[r2] = pc[r2]]_vars

C14_Witness ==
    \E r1, r2 \in Reqs :
        /\ r1 # r2
        /\ req[r1].method = "PUT" /\ req[r1].kind = "event" /\ Id(r1) = "x"
        /\ pc[r1] = "done" /\ resp[r1].status = StatusMethodNotAllowed
        /\ req[r2].method = "PUT" /\ req[r2].kind = "malformed"
        /\ pc[r2] = "done" /\ resp[r2].status = StatusMethodNotAllowed
        /\ items["x"] = NoItem /\ lastSet["x"] = Never

\* C15: an id the cache holds has been recorded by a Set, a Set is made only
\* by a call whose one relay call has returned the text, only such a Set puts
\* an absent id into the cache, and a lookup that ends as skipped-duplicate is
\* of an id so recorded.
C15_CachedMeansDelivered ==
    /\ [](\A k \in Keys : items[k] # NoItem => lastSet[k] # Never)
    /\ [](\A r \in Reqs : pc[r] = "set" =>
              calls[r] = 1 /\ ret[r] = "-" /\ IsPost(r) /\ req[r].kind = "event")
    /\ [][\A r \in Reqs : (pc'[r] = "set" /\ pc[r] # "set") =>
              pc[r] = "post" /\ calls[r] = 0 /\ items' = items]_vars
    /\ [][\A k \in Keys :
            ((items[k] = NoItem /\ items'[k] # NoItem) \/ lastSet'[k] # lastSet[k]) =>
                \E r \in Reqs :
                    /\ Id(r) = k /\ pc[r] = "set" /\ calls[r] = 1
                    /\ pc'[r] = "done" /\ ret'[r] = "forwarded"]_vars
    /\ [][\A r \in Reqs :
            (Looks(r) /\ ret'[r] = "skipped-duplicate") =>
                lastSet[Id(r)] # Never /\ items[Id(r)] # NoItem]_vars

C15_Witness ==
    \E r1, r2 \in Reqs :
        /\ r1 # r2
        /\ pc[r1] = "done" /\ ret[r1] = "relay-error" /\ Id(r1) = "y"
        /\ items["y"] = NoItem /\ lastSet["y"] = Never
        /\ pc[r2] = "done" /\ ret[r2] = "skipped-duplicate" /\ Id(r2) = "x"
        /\ items["x"] # NoItem /\ lastSet["x"] # Never

\* C16: a lookup depends on the id alone, not on the route parameters: once a
\* call has forwarded id x to A/B/C, a post of x to D/E/F looked up less than
\* 300 s after the recording ends as skipped-duplicate, and a call that ended so
\* has made no relay call, so that post delivers nothing to D/E/F.
C16_KeyIgnoresRoute ==
    /\ [](\A r \in Reqs : (pc[r] = "done" /\ ret[r] = "skipped-duplicate") => calls[r] = 0)
    /\ [][\A r \in Reqs :
            (/\ Looks(r) /\ slackToken(req[r]) = "D/E/F"
             /\ lastSet[Id(r)] # Never /\ now - lastSet[Id(r)] < cacheTTL
             /\ \E r1 \in Reqs \ {r} :
                    /\ pc[r1] = "done" /\ ret[r1] = "forwarded"
                    /\ Id(r1) = Id(r) /\ slackToken(req[r1]) = "A/B/C") =>
                /\ pc'[r] = "done"
                /\ ret'[r] = "skipped-duplicate"
                /\ calls' = calls]_vars
    /\ [][\A r \in Reqs :
            Looks(r) => ((ret'[r] = "skipped-duplicate") <=>
                            (items[Id(r)] # NoItem /\ items[Id(r)] >= now))]_vars

C16_Witness ==
    \E r1, r2 \in Reqs :
        /\ r1 # r2 /\ Id(r1) = "x" /\ Id(r2) = "x"
        /\ pc[r1] = "done" /\ ret[r1] = "forwarded" /\ slackToken(req[r1]) = "A/B/C"
        /\ pc[r2] = "done" /\ ret[r2] = "skipped-duplicate" /\ slackToken(req[r2]) = "D/E/F"
        /\ calls[r2] = 0
        /\ now > lastSet["x"] /\ items["x"] = now + cacheTTL

TypeOK ==
    /\ now \in 0..MaxTime
    /\ items \in [Keys -> {NoItem} \cup 0..(MaxTime + cacheTTL)]
    /\ pc \in [Reqs -> {"idle", "get", "post", "set", "done"}]
    /\ req \in [Reqs -> Requests \cup NonPostBroken \cup RouteRequests \cup {NoRequest}]
    /\ calls \in [Reqs -> 0..1]
    /\ lastSet \in [Keys -> {Never} \cup 0..MaxTime]
    /\ ping \in {Never} \cup 0..MaxTime
    /\ prevPing \in {Never} \cup 0..MaxTime
====
